---------------------------- MODULE Spec2Model ----------------------------
(***************************************************************************)
(* A model of druid-gridview (src/src/lib.rs): the GridView widget, its   *)
(* child pool, the GridIter adapter of Arc<Vec<T>> and the five widget     *)
(* passes (event, lifecycle, update, layout, paint).                       *)
(*                                                                         *)
(* Lengths (f64 in the source) are modelled by naturals; every length the  *)
(* model draws is a whole number, on which the source's float arithmetic   *)
(* (+, min, max, floor of a quotient) is exact.  Indices are 0-based as in *)
(* the source; sequences are 1-based, so the item of index i is items[i+1].*)
(***************************************************************************)
EXTENDS Integers, Sequences, FiniteSets

\* ------------------------------------------------------------------ bounds
\* Longest collection the host hands to the widget.
MaxLen == 3
\* Factory invocations in one run (ids of children are 1..MaxCreated).
MaxCreated == 4
\* Largest explicit minor-axis count a caller configures.
MaxCount == 3
\* Largest pool laid out by the layout specification.
MaxPool == 5
\* Longest chain of builder/setter calls in the builder specification.
MaxChain == 3

\* usize::MAX, the value `as usize` saturates to, represented by the largest
\* 32-bit integer: all that the code does with it is take indices that are
\* far smaller modulo it and chunk by it.
UsizeMax == 2147483647
\* f64::INFINITY as a constraint bound (a grid inside a Scroll): larger than
\* every finite length of the model.
Infinity == 1000000

\* The values of an item (an opaque Data value compared by `same`), and the
\* addresses of an Arc allocation.
Items == {0, 1}
Addrs == {0, 1}

Min(a, b) == IF a < b THEN a ELSE b
Max(a, b) == IF a > b THEN a ELSE b

VARIABLES
    children,            \* GridView.children: the pool, a sequence of child ids
    created,             \* number of times the factory closure has run
    data,                \* the Arc<Vec<T>>: [ptr |-> address, items |-> Vec]
    axis,                \* GridView.axis: "Vertical" | "Horizontal"
    vertical_spacing,    \* GridView.vertical_spacing (resolved)
    horizontal_spacing,  \* GridView.horizontal_spacing (resolved)
    minor_axis_count,    \* GridView.minor_axis_count: <<"Wrap", 0>> | <<"Count", n>>
    chain,               \* the builder/setter calls made so far, <<name, arg>> each
    phase,               \* the host: "build" | "added" | "dirty" | "panicked"
    pass,                \* what the most recent pass did (see NoPass)
    lay                  \* what the pass computed if it was a layout pass (see NoLay)

vars == <<children, created, data, axis, vertical_spacing,
          horizontal_spacing, minor_axis_count, chain, phase, pass, lay>>

config == <<axis, vertical_spacing, horizontal_spacing, minor_axis_count, chain>>

\* --------------------------------------------------- GridIter for Arc<Vec<T>>

\* Data::same on items: value equality.
same(a, b) == a = b

data_len(d) == Len(d.items)

\* Option<&T>: the empty sequence is None, <<x>> is Some(x).
child_data(d) == SubSeq(d.items, 1, Min(1, Len(d.items)))

\* for_each: the calls cb(item, i) it makes, in order, as <<item, i>>.
for_each(d) == [k \in 1..Len(d.items) |-> <<d.items[k], k - 1>>]

\* slice::chunks(n) for n > 0.
chunks(s, n) ==
    LET count == IF Len(s) = 0 THEN 0 ELSE ((Len(s) - 1) \div n) + 1
    IN  [c \in 1..count |->
            SubSeq(s, (c - 1) * n + 1, IF c = count THEN Len(s) ELSE c * n)]

RECURSIVE RowCalls_local(_, _, _)
\* Mutant of RowCalls: the index is the place within the chunk.
RowCalls_local(ch, i, chunks_len) ==
    IF i >= Len(ch) THEN <<>>
    ELSE [j \in 1..Len(ch[i + 1]) |-> <<ch[i + 1][j], j - 1>>]
         \o RowCalls_local(ch, i + 1, chunks_len)

RECURSIVE RowCalls(_, _, _)
\* The calls of row's nested loops from chunk number i (0-based) on.
RowCalls(ch, i, chunks_len) ==
    IF i >= Len(ch) THEN <<>>
    ELSE [j \in 1..Len(ch[i + 1]) |-> <<ch[i + 1][j], i * chunks_len + (j - 1)>>]
         \o RowCalls(ch, i + 1, chunks_len)

\* row: the calls cb(item, i * chunks_len + j) it makes, in order (row_len > 0;
\* chunks(0) panics, which the caller decides before it uses this).
row(d, row_len) == RowCalls(chunks(d.items, row_len), 0, row_len)

RECURSIVE AnyChanged(_, _, _, _)
\* The any_changed flag after the loop has handled items k.. of the Vec.
AnyChanged(items, new_data, k, any_changed) ==
    IF k > Len(items) THEN any_changed
    ELSE AnyChanged(items, new_data, k + 1,
                    IF ~any_changed /\ ~same(items[k], new_data[k])
                    THEN TRUE ELSE any_changed)

\* Arc::new while the Arc at address p is alive: an address no live Arc has.
ArcNew(p) == CHOOSE q \in Addrs : q # p

\* Mutant of for_each_mut: the Arc is replaced whether or not a copy differs.
for_each_mut_always_new(d, new_data) ==
    [ptr |-> ArcNew(d.ptr), items |-> new_data]

\* for_each_mut: new_data[k] is what cb left in the copy of item k-1; the Arc
\* is replaced by a new allocation iff some copy is not `same` as its item.
for_each_mut(d, new_data) ==
    IF AnyChanged(d.items, new_data, 1, FALSE)
    THEN [ptr |-> ArcNew(d.ptr), items |-> new_data]
    ELSE d

\* row_mut: as for_each_mut, the copies taken chunk by chunk: the k-th call
\* is cb(copy, i), and edit[i + 1] is what cb leaves in that copy.
row_mut(d, edit, row_len) ==
    LET cs == row(d, row_len)
        new_data == [k \in 1..Len(cs) |-> edit[cs[k][2] + 1]]
    IN  IF AnyChanged([k \in 1..Len(cs) |-> cs[k][1]], new_data, 1, FALSE)
        THEN [ptr |-> ArcNew(d.ptr), items |-> new_data]
        ELSE d

\* ------------------------------------------------------- the child pool

\* Entries of a pass's trace, in the order the pass does them:
\*   <<"dispatch", child, index, item>>  the pass handed item `index` to child
\*   <<"skip", 0, index, item>>          an item visited with no child left
\*   <<"factory", child, index, 0>>      the closure ran for item `index`
\*   <<"truncate", 0, n, 0>>             children.truncate(n)
\*   <<"children_changed", 0, 0, 0>>     ctx.children_changed()

RECURSIVE PushNew_strict(_, _, _, _)
\* Mutant of PushNew: `if i > len`, which leaves index len without a child.
PushNew_strict(cs, len, nid, k) ==
    IF k > Len(cs) THEN <<>>
    ELSE IF cs[k][2] > len
         THEN <<<<"factory", nid + 1, cs[k][2], 0>>>>
              \o PushNew_strict(cs, len, nid + 1, k + 1)
         ELSE PushNew_strict(cs, len, nid, k + 1)

RECURSIVE PushNew_replay(_, _, _, _)
\* Mutant of PushNew: no `if i >= len`, the factory runs for every item.
PushNew_replay(cs, len, nid, k) ==
    IF k > Len(cs) THEN <<>>
    ELSE <<<<"factory", nid + 1, cs[k][2], 0>>>> \o PushNew_replay(cs, len, nid + 1, k + 1)

RECURSIVE PushNew(_, _, _, _)
\* The Ordering::Less arm: data.for_each(|_, i| if i >= len { push(new child) })
\* over the calls cs; nid is the number of children made before.  The result
\* is the trace of the factory invocations.
PushNew(cs, len, nid, k) ==
    IF k > Len(cs) THEN <<>>
    ELSE IF cs[k][2] >= len
         THEN <<<<"factory", nid + 1, cs[k][2], 0>>>> \o PushNew(cs, len, nid + 1, k + 1)
         ELSE PushNew(cs, len, nid, k + 1)

\* Mutant of update_child_count: the Ordering::Greater arm does nothing.
update_child_count_no_truncate(ch, d, nid) ==
    LET len == Len(ch)
        made == PushNew(for_each(d), len, nid, 1)
    IN  [children |->
            IF len < data_len(d)
            THEN ch \o [k \in 1..Len(made) |-> made[k][2]]
            ELSE ch,
         trace |-> IF len < data_len(d) THEN made ELSE <<>>,
         ret |-> len # data_len(d)]

\* Mutant of update_child_count: it returns true whatever it did.
update_child_count_always_true(ch, d, nid) ==
    LET len == Len(ch)
        made == PushNew(for_each(d), len, nid, 1)
    IN  [children |->
            IF len > data_len(d) THEN SubSeq(ch, 1, data_len(d))
            ELSE IF len < data_len(d)
                 THEN ch \o [k \in 1..Len(made) |-> made[k][2]]
                 ELSE ch,
         trace |->
            IF len > data_len(d) THEN <<<<"truncate", 0, data_len(d), 0>>>>
            ELSE IF len < data_len(d) THEN made
                 ELSE <<>>,
         ret |-> TRUE]

\* Mutant of update_child_count: truncate drops the leading children.
update_child_count_drop_front(ch, d, nid) ==
    LET len == Len(ch)
        made == PushNew(for_each(d), len, nid, 1)
    IN  [children |->
            IF len > data_len(d) THEN SubSeq(ch, len - data_len(d) + 1, len)
            ELSE IF len < data_len(d)
                 THEN ch \o [k \in 1..Len(made) |-> made[k][2]]
                 ELSE ch,
         trace |->
            IF len > data_len(d) THEN <<<<"truncate", 0, data_len(d), 0>>>>
            ELSE IF len < data_len(d) THEN made
                 ELSE <<>>,
         ret |-> len # data_len(d)]

\* update_child_count: [children, ret, trace] from the pool ch (nid children
\* made so far) against the collection d.
update_child_count(ch, d, nid) ==
    LET len == Len(ch)
        made == PushNew(for_each(d), len, nid, 1)
    IN  [children |->
            IF len > data_len(d) THEN SubSeq(ch, 1, data_len(d))
            ELSE IF len < data_len(d)
                 THEN ch \o [k \in 1..Len(made) |-> made[k][2]]
                 ELSE ch,
         trace |->
            IF len > data_len(d) THEN <<<<"truncate", 0, data_len(d), 0>>>>
            ELSE IF len < data_len(d) THEN made
                 ELSE <<>>,
         ret |-> len # data_len(d)]

RECURSIVE Propagate_stop(_, _, _)
\* Mutant of Propagate: the visit ends at the first item with no child.
Propagate_stop(ch, cs, k) ==
    IF k > Len(cs) \/ k > Len(ch) THEN <<>>
    ELSE <<<<"dispatch", ch[k], cs[k][2], cs[k][1]>>>> \o Propagate_stop(ch, cs, k + 1)

RECURSIVE Propagate(_, _, _)
\* `let mut children = self.children.iter_mut(); data.for_each(|child_data, _|
\* if let Some(child) = children.next() { child.<pass>(.., child_data, ..) })`:
\* the k-th call takes the k-th child of the pool, if there is one.
Propagate(ch, cs, k) ==
    IF k > Len(cs) THEN <<>>
    ELSE (IF k <= Len(ch)
          THEN <<<<"dispatch", ch[k], cs[k][2], cs[k][1]>>>>
          ELSE <<<<"skip", 0, cs[k][2], cs[k][1]>>>>)
         \o Propagate(ch, cs, k + 1)

Count(tr, op) == Cardinality({k \in 1..Len(tr) : tr[k][1] = op})

\*   <<"call", 0, index, item>>          an adapter operation called cb(item, index)

\* The record of a pass.  pool, coll and ptr are the pool, the collection's
\* items and its address on entry; edit is what the visitor of a mutable
\* visit left in each copy; reconciled tells whether update_child_count ran,
\* target the length it ran against and ret what it returned; prev is the
\* length the pass right before reconciled against (-1: it did not).
NoPass ==
    [kind |-> "none", event |-> "none", pool |-> <<>>, coll |-> <<>>, ptr |-> 0,
     trace |-> <<>>, edit |-> <<>>, reconciled |-> FALSE, target |-> 0,
     ret |-> FALSE, prev |-> -1]

\* The length the pass p reconciled against, for the pass that follows it.
Reconciled(p) == IF p.reconciled THEN p.target ELSE -1


\* ------------------------------------------------------------- geometry
\* Size is <<width, height>>, Point is <<x, y>>, Rect is [x0, y0, x1, y1],
\* BoxConstraints is [min |-> Size, max |-> Size].

\* Axis::major / Axis::minor of a Size, Axis::pack of (major, minor).
major(ax, sz) == IF ax = "Horizontal" THEN sz[1] ELSE sz[2]
minor(ax, sz) == IF ax = "Horizontal" THEN sz[2] ELSE sz[1]
pack(ax, maj, mnr) == IF ax = "Horizontal" THEN <<maj, mnr>> ELSE <<mnr, maj>>

\* Mutant of constraints: the arms of the two axes exchanged.
constraints_swapped(ax, bc, min_major, maj) ==
    IF ax = "Vertical"
    THEN [min |-> <<min_major, bc.min[2]>>, max |-> <<maj, bc.max[2]>>]
    ELSE [min |-> <<bc.min[1], min_major>>, max |-> <<bc.max[1], maj>>]

\* Generate constraints with new values on the major axis.
constraints(ax, bc, min_major, maj) ==
    IF ax = "Horizontal"
    THEN [min |-> <<min_major, bc.min[2]>>, max |-> <<maj, bc.max[2]>>]
    ELSE [min |-> <<bc.min[1], min_major>>, max |-> <<bc.max[1], maj>>]

RectZERO == [x0 |-> 0, y0 |-> 0, x1 |-> 0, y1 |-> 0]

\* Rect::union: the smallest rectangle holding both.
union(a, b) ==
    [x0 |-> Min(a.x0, b.x0), y0 |-> Min(a.y0, b.y0),
     x1 |-> Max(a.x1, b.x1), y1 |-> Max(a.y1, b.y1)]

\* Rect::size.
size(r) == <<r.x1 - r.x0, r.y1 - r.y0>>

\* BoxConstraints::constrain: each dimension raised to min, then cut to max.
constrain(bc, sz) ==
    <<Min(Max(sz[1], bc.min[1]), bc.max[1]), Min(Max(sz[2], bc.min[2]), bc.max[2])>>

\* Size::to_rect.
to_rect(sz) == [x0 |-> 0, y0 |-> 0, x1 |-> sz[1], y1 |-> sz[2]]

\* Mutant of rect_sub: the operands the other way round.
rect_sub_swapped(r, other) ==
    [x0 |-> r.x0 - other.x0, y0 |-> r.y0 - other.y0,
     x1 |-> other.x1 - r.x1, y1 |-> other.y1 - r.y1]

\* Rect - Rect: the Insets that turn `other` into `r`.
rect_sub(r, other) ==
    [x0 |-> other.x0 - r.x0, y0 |-> other.y0 - r.y0,
     x1 |-> r.x1 - other.x1, y1 |-> r.y1 - other.y1]

\* WidgetPod::paint_rect of a child of size sz at origin pos whose own paint
\* insets are `inset` on every side.
child_paint_rect(pos, sz, inset) ==
    [x0 |-> pos[1] - inset, y0 |-> pos[2] - inset,
     x1 |-> pos[1] + sz[1] + inset, y1 |-> pos[2] + sz[2] + inset]

\* --------------------------------------------------------------- layout

\* (minor_len / axis.minor(child_size)).floor() as usize.  x / 0.0 is +inf
\* for x > 0 and NaN for x = 0; `as usize` saturates +inf to usize::MAX and
\* turns NaN into 0.
floor_div_as_usize(minor_len, child_minor) ==
    IF child_minor = 0
    THEN (IF minor_len = 0 THEN 0 ELSE UsizeMax)
    ELSE IF minor_len = Infinity THEN UsizeMax
         ELSE minor_len \div child_minor

\* Mutant of wrap_count: no guard for a zero-sized child.
wrap_count_unguarded(ax, minor_len, child_size) ==
    floor_div_as_usize(minor_len, minor(ax, child_size))

\* The Wrap arm's count from the measured size of the probed child.
wrap_count(ax, minor_len, child_size) ==
    IF child_size = <<0, 0>>
    THEN 1
    ELSE floor_div_as_usize(minor_len, minor(ax, child_size))

\* Mutant of advance: the row ends where idx, not idx + 1, is a multiple.
advance_early(ax, st, idx, child_size, count, major_spacing, minor_spacing) ==
    IF idx % count = 0
    THEN [major_pos |-> st.major_pos + major(ax, child_size) + major_spacing,
          minor_pos |-> 0]
    ELSE [major_pos |-> st.major_pos,
          minor_pos |-> st.minor_pos + minor(ax, child_size) + minor_spacing]

\* The position after a child of size child_size at flat index idx.
advance(ax, st, idx, child_size, count, major_spacing, minor_spacing) ==
    IF (idx + 1) % count = 0
    THEN [major_pos |-> st.major_pos + major(ax, child_size) + major_spacing,
          minor_pos |-> 0]
    ELSE [major_pos |-> st.major_pos,
          minor_pos |-> st.minor_pos + minor(ax, child_size) + minor_spacing]

RECURSIVE Place(_, _, _, _, _, _, _, _, _)
\* The closure of data.row from its k-th call on: the k-th call lays out the
\* k-th child of the pool; with no child left it returns at once.  st holds
\* major_pos, minor_pos, paint_rect and the origins set so far.
Place(ax, ch, cs, k, st, sizes, inset, count, sp) ==
    IF k > Len(cs) \/ k > Len(ch) THEN st
    ELSE LET child_size == sizes[k]
             child_pos == pack(ax, st.major_pos, st.minor_pos)
             nxt == advance(ax, st, cs[k][2], child_size, count, sp[1], sp[2])
         IN  Place(ax, ch, cs, k + 1,
                   [major_pos |-> nxt.major_pos, minor_pos |-> nxt.minor_pos,
                    paint_rect |-> union(st.paint_rect,
                                         child_paint_rect(child_pos, child_size, inset)),
                    origins |-> Append(st.origins, child_pos)],
                   sizes, inset, count, sp)

\* The record of a layout pass: its inputs (bc; sizes, the size each child of
\* the pool measures to under child_bc; inset, the children's own paint
\* insets), the per-child constraints, the arm of minor_axis_count taken,
\* the probed size (none, or one), the effective count, the origin set on
\* each child laid out, the union of their paint rectangles, the returned
\* size, the paint insets set on the context, and the panic if any.
NoLay ==
    [bc |-> [min |-> <<0, 0>>, max |-> <<0, 0>>],
     child_bc |-> [min |-> <<0, 0>>, max |-> <<0, 0>>],
     sizes |-> <<>>, inset |-> 0, policy |-> "none", probe |-> <<>>, count |-> 0,
     origins |-> <<>>, paint_rect |-> RectZERO, my_size |-> <<0, 0>>,
     insets |-> RectZERO, fault |-> "none"]

\* Widget::layout of the grid `g` = [children, axis, vertical_spacing,
\* horizontal_spacing, minor_axis_count] over the collection d.
layout(g, d, bc, sizes, inset) ==
    LET ax == g.axis
        sp == IF ax = "Vertical"
              THEN <<g.vertical_spacing, g.horizontal_spacing>>
              ELSE <<g.horizontal_spacing, g.vertical_spacing>>
        child_bc == constraints(ax, bc, 0, major(ax, bc.max))
        wrap == g.minor_axis_count[1] = "Wrap"
        probed == wrap /\ Len(g.children) > 0
        \* data.child_data().unwrap() on an empty collection
        unwrap_none == probed /\ child_data(d) = <<>>
        child_size == IF probed THEN sizes[Len(g.children)] ELSE <<0, 0>>
        count == IF wrap
                 THEN wrap_count(ax, minor(ax, bc.max), child_size)
                 ELSE g.minor_axis_count[2]
        base == [NoLay EXCEPT !.bc = bc, !.child_bc = child_bc, !.sizes = sizes,
                              !.inset = inset,
                              !.policy = g.minor_axis_count[1],
                              !.probe = IF probed THEN <<child_size>> ELSE <<>>]
    IN  IF unwrap_none
        THEN [base EXCEPT !.fault = "unwrap on None"]
        ELSE IF count = 0
        THEN [base EXCEPT !.count = count, !.fault = "chunk size must be non-zero"]
        ELSE LET st == Place(ax, g.children, row(d, count), 1,
                             [major_pos |-> 0, minor_pos |-> 0,
                              paint_rect |-> RectZERO, origins |-> <<>>],
                             sizes, inset, count, sp)
                 my_size == constrain(bc, size(st.paint_rect))
             IN  [base EXCEPT !.count = count, !.origins = st.origins,
                              !.paint_rect = st.paint_rect, !.my_size = my_size,
                              !.insets = rect_sub(st.paint_rect, to_rect(my_size))]

\* The GridView as layout reads it.
self == [children |-> children, axis |-> axis,
         vertical_spacing |-> vertical_spacing,
         horizontal_spacing |-> horizontal_spacing,
         minor_axis_count |-> minor_axis_count]


\* ------------------------------------------------- construction, builders
\* A grid without its pool: [axis, vertical_spacing, horizontal_spacing,
\* minor_axis_count].

\* GridView::new: vertical, 0 spacing, 5 items on the minor axis.
DefaultCount == 5

new ==
    [axis |-> "Vertical", vertical_spacing |-> 0, horizontal_spacing |-> 0,
     minor_axis_count |-> <<"Count", DefaultCount>>]

horizontal(g) == [g EXCEPT !.axis = "Horizontal"]
wrap(g) == [g EXCEPT !.minor_axis_count = <<"Wrap", 0>>]
with_minor_axis_count(g, count) == [g EXCEPT !.minor_axis_count = <<"Count", count>>]
set_minor_axis_count(g, count) == [g EXCEPT !.minor_axis_count = <<"Count", count>>]
with_spacing(g, spacing) ==
    [g EXCEPT !.vertical_spacing = spacing, !.horizontal_spacing = spacing]
set_spacing(g, spacing) ==
    [g EXCEPT !.vertical_spacing = spacing, !.horizontal_spacing = spacing]
with_vertical_spacing(g, spacing) == [g EXCEPT !.vertical_spacing = spacing]
set_vertical_spacing(g, spacing) == [g EXCEPT !.vertical_spacing = spacing]
with_horizontal_spacing(g, spacing) == [g EXCEPT !.horizontal_spacing = spacing]
set_horizontal_spacing(g, spacing) == [g EXCEPT !.horizontal_spacing = spacing]

\* One builder/setter call <<name, arg>> on g.
call(g, c) ==
    CASE c[1] = "horizontal" -> horizontal(g)
      [] c[1] = "wrap" -> wrap(g)
      [] c[1] = "with_minor_axis_count" -> with_minor_axis_count(g, c[2])
      [] c[1] = "set_minor_axis_count" -> set_minor_axis_count(g, c[2])
      [] c[1] = "with_spacing" -> with_spacing(g, c[2])
      [] c[1] = "set_spacing" -> set_spacing(g, c[2])
      [] c[1] = "with_vertical_spacing" -> with_vertical_spacing(g, c[2])
      [] c[1] = "set_vertical_spacing" -> set_vertical_spacing(g, c[2])
      [] c[1] = "with_horizontal_spacing" -> with_horizontal_spacing(g, c[2])
      [] c[1] = "set_horizontal_spacing" -> set_horizontal_spacing(g, c[2])

RECURSIVE built(_, _)
\* The grid g after the builder/setter calls of the chain cs, in order.
built(g, cs) == IF cs = <<>> THEN g ELSE built(call(g, Head(cs)), Tail(cs))

\* The spacings and counts callers pass.
Spacings == {0, 2, 3}
Counts == 0..MaxCount

Calls ==
    {<<"horizontal", 0>>, <<"wrap", 0>>}
    \cup {<<m, n>> : m \in {"with_minor_axis_count", "set_minor_axis_count"},
                     n \in Counts}
    \cup {<<m, v>> : m \in {"with_spacing", "set_spacing", "with_vertical_spacing",
                            "set_vertical_spacing", "with_horizontal_spacing",
                            "set_horizontal_spacing"},
                     v \in Spacings}

\* The configuration variables hold the grid g built by the chain cs.
Configured(g, cs) ==
    /\ axis = g.axis
    /\ vertical_spacing = g.vertical_spacing
    /\ horizontal_spacing = g.horizontal_spacing
    /\ minor_axis_count = g.minor_axis_count
    /\ chain = cs

\* ---------------------------------------------------------------- passes

Alive == phase # "panicked"

\* Mutant of EventPass: the event pass reconciles the pool before it
\* propagates.
EventPass_reconciling ==
    /\ Alive
    /\ LET r == update_child_count(children, data, created)
           made == Count(r.trace, "factory")
       IN  /\ created + made <= MaxCreated
           /\ children' = r.children
           /\ created' = created + made
           /\ \E edits \in [1..data_len(data) -> Items] :
                /\ data' = for_each_mut(data, edits)
                /\ pass' = [NoPass EXCEPT !.kind = "event", !.pool = children,
                                          !.coll = data.items, !.ptr = data.ptr,
                                          !.edit = edits,
                                          !.trace = r.trace
                                              \o Propagate(r.children, for_each(data), 1)]
    /\ lay' = NoLay
    /\ UNCHANGED config

\* Widget::event: for_each_mut over the collection, each copy handed to the
\* next child of the pool, which may leave any value in it (edits).
EventPass ==
    /\ Alive
    /\ \E edits \in [1..Min(Len(children), data_len(data)) -> Items] :
         LET new_data == [k \in 1..data_len(data) |->
                             IF k <= Len(children) THEN edits[k] ELSE data.items[k]]
         IN  /\ data' = for_each_mut(data, new_data)
             /\ pass' = [NoPass EXCEPT !.kind = "event", !.pool = children,
                                       !.coll = data.items, !.ptr = data.ptr,
                                       !.edit = new_data,
                                       !.trace = Propagate(children, for_each(data), 1)]
    /\ lay' = NoLay
    /\ UNCHANGED <<children, created, config>>

\* Mutant of LifecyclePass: the event is propagated before the pool is
\* reconciled.
LifecyclePass_propagate_first(event) ==
    /\ Alive
    /\ LET r == IF event = "WidgetAdded"
                THEN update_child_count(children, data, created)
                ELSE [children |-> children, trace |-> <<>>, ret |-> FALSE]
           made == Count(r.trace, "factory")
       IN  /\ created + made <= MaxCreated
           /\ children' = r.children
           /\ created' = created + made
           /\ pass' = [kind |-> "lifecycle", event |-> event, pool |-> children,
                       coll |-> data.items, ptr |-> data.ptr, edit |-> <<>>,
                       trace |-> Propagate(children, for_each(data), 1)
                                 \o r.trace
                                 \o (IF r.ret THEN <<<<"children_changed", 0, 0, 0>>>>
                                     ELSE <<>>),
                       reconciled |-> event = "WidgetAdded",
                       target |-> data_len(data), ret |-> r.ret,
                       prev |-> Reconciled(pass)]
    /\ lay' = NoLay
    /\ UNCHANGED <<data, config>>

\* Widget::lifecycle: on WidgetAdded reconcile and signal, then propagate.
LifecyclePass(event) ==
    /\ Alive
    /\ LET r == IF event = "WidgetAdded"
                THEN update_child_count(children, data, created)
                ELSE [children |-> children, trace |-> <<>>, ret |-> FALSE]
           made == Count(r.trace, "factory")
       IN  /\ created + made <= MaxCreated
           /\ children' = r.children
           /\ created' = created + made
           /\ pass' = [kind |-> "lifecycle", event |-> event, pool |-> children,
                       coll |-> data.items, ptr |-> data.ptr, edit |-> <<>>,
                       trace |-> r.trace
                                 \o (IF r.ret THEN <<<<"children_changed", 0, 0, 0>>>>
                                     ELSE <<>>)
                                 \o Propagate(r.children, for_each(data), 1),
                       reconciled |-> event = "WidgetAdded",
                       target |-> data_len(data), ret |-> r.ret,
                       prev |-> Reconciled(pass)]
    /\ lay' = NoLay
    /\ UNCHANGED <<data, config>>

\* Mutant of UpdatePass: the pool is reconciled before the update is
\* propagated.
UpdatePass_reconcile_first ==
    /\ Alive
    /\ LET r == update_child_count(children, data, created)
           made == Count(r.trace, "factory")
       IN  /\ created + made <= MaxCreated
           /\ children' = r.children
           /\ created' = created + made
           /\ pass' = [kind |-> "update", event |-> "none", pool |-> children,
                       coll |-> data.items, ptr |-> data.ptr, edit |-> <<>>,
                       trace |-> r.trace
                                 \o (IF r.ret THEN <<<<"children_changed", 0, 0, 0>>>>
                                     ELSE <<>>)
                                 \o Propagate(r.children, for_each(data), 1),
                       reconciled |-> TRUE,
                       target |-> data_len(data), ret |-> r.ret,
                       prev |-> Reconciled(pass)]
    /\ lay' = NoLay
    /\ UNCHANGED <<data, config>>

\* Widget::update: propagate to the children there are, then reconcile and
\* signal.
UpdatePass ==
    /\ Alive
    /\ LET r == update_child_count(children, data, created)
           made == Count(r.trace, "factory")
       IN  /\ created + made <= MaxCreated
           /\ children' = r.children
           /\ created' = created + made
           /\ pass' = [kind |-> "update", event |-> "none", pool |-> children,
                       coll |-> data.items, ptr |-> data.ptr, edit |-> <<>>,
                       trace |-> Propagate(children, for_each(data), 1)
                                 \o r.trace
                                 \o (IF r.ret THEN <<<<"children_changed", 0, 0, 0>>>>
                                     ELSE <<>>),
                       reconciled |-> TRUE,
                       target |-> data_len(data), ret |-> r.ret,
                       prev |-> Reconciled(pass)]
    /\ lay' = NoLay
    /\ UNCHANGED <<data, config>>

\* Widget::layout under the constraints bc, the children measuring to sizes.
LayoutPass(bc, sizes, inset) ==
    /\ Alive
    /\ LET l == layout(self, data, bc, sizes, inset)
       IN  /\ lay' = l
           /\ pass' = [NoPass EXCEPT !.kind = "layout", !.pool = children,
                                     !.coll = data.items, !.ptr = data.ptr,
                                     !.trace = IF l.fault = "none"
                                               THEN Propagate(children,
                                                              row(data, l.count), 1)
                                               ELSE <<>>]
    /\ UNCHANGED <<children, created, data, config>>

\* Widget::paint.
PaintPass ==
    /\ Alive
    /\ pass' = [NoPass EXCEPT !.kind = "paint", !.pool = children,
                              !.coll = data.items, !.ptr = data.ptr,
                              !.trace = Propagate(children, for_each(data), 1)]
    /\ lay' = NoLay
    /\ UNCHANGED <<children, created, data, config>>

\* A panic ends the program.
Faulted == lay'.fault # "none"


\* ------------------------------------------------------------- the host

\* The collections the host holds.
Colls == UNION {[1..n -> Items] : n \in 0..MaxLen}

Bc(mn, mx) == [min |-> mn, max |-> mx]

\* The grids the host mounts: GridView::new(..) and a chain of builders.
HostChains ==
    {<<>>,
     <<<<"wrap", 0>>>>,
     <<<<"with_spacing", 2>>, <<"with_minor_axis_count", 2>>>>}

\* The constraints the host lays the grid out under (the second: inside a
\* vertical Scroll), and the sizes its children measure to.
HostBcs == {Bc(<<0, 0>>, <<25, 25>>), Bc(<<0, 0>>, <<25, Infinity>>)}
HostSizes == {<<0, 0>>, <<10, 10>>}

\* GridView::new(closure) and its builders, not yet in the widget tree.
Init ==
    /\ children = <<>>
    /\ created = 0
    /\ \E items \in Colls : data = [ptr |-> 0, items |-> items]
    /\ \E cs \in HostChains : Configured(built(new, cs), cs)
    /\ phase = "build"
    /\ pass = NoPass
    /\ lay = NoLay

\* The host adds the widget to the tree: the first pass of all.
HostAdded ==
    /\ phase = "build"
    /\ LifecyclePass("WidgetAdded")
    /\ phase' = "added"

\* Any other lifecycle event, also between a change of the data and its
\* update pass.
HostLifecycle ==
    /\ phase \in {"added", "dirty"}
    /\ LifecyclePass("Other")
    /\ UNCHANGED phase

\* The application replaces the collection; the host owes an update pass.
HostSetData ==
    /\ phase \in {"added", "dirty"}
    /\ \E items \in Colls : data' = [ptr |-> ArcNew(data.ptr), items |-> items]
    /\ phase' = "dirty"
    /\ pass' = [NoPass EXCEPT !.kind = "set_data"]
    /\ lay' = NoLay
    /\ UNCHANGED <<children, created, config>>

HostUpdate ==
    /\ phase \in {"added", "dirty"}
    /\ UpdatePass
    /\ phase' = "added"

\* An event pass; if a child changed an item the host owes an update pass.
HostEvent ==
    /\ phase = "added"
    /\ EventPass
    /\ phase' = IF data' # data THEN "dirty" ELSE "added"

HostLayout ==
    /\ phase = "added"
    /\ \E bc \in HostBcs, sz \in HostSizes :
         LayoutPass(bc, [k \in 1..Len(children) |-> sz], 0)
    /\ phase' = IF Faulted THEN "panicked" ELSE phase

HostPaint ==
    /\ phase = "added"
    /\ PaintPass
    /\ UNCHANGED phase

Next ==
    \/ HostAdded
    \/ HostLifecycle
    \/ HostSetData
    \/ HostUpdate
    \/ HostEvent
    \/ HostLayout
    \/ HostPaint

Spec == Init /\ [][Next]_vars


\* ------------------------------------------- the passes in any order
\* The widget driven without the host's ordering (as a test harness calls
\* it): any pass at any time, the collection replaced at any time.

\* Also a box narrower than a child.
AnyBcs == HostBcs \cup {Bc(<<0, 0>>, <<5, 5>>)}

InitAny ==
    /\ children = <<>>
    /\ created = 0
    /\ data = [ptr |-> 0, items |-> <<>>]
    /\ \E cs \in HostChains \ {<<>>} : Configured(built(new, cs), cs)
    /\ phase = "any"
    /\ pass = NoPass
    /\ lay = NoLay

\* A new collection of any length (its items are then changed by events).
AnySetData ==
    /\ Alive
    /\ \E n \in 0..MaxLen :
         data' = [ptr |-> ArcNew(data.ptr), items |-> [k \in 1..n |-> 0]]
    /\ pass' = [NoPass EXCEPT !.kind = "set_data"]
    /\ lay' = NoLay
    /\ UNCHANGED <<children, created, config, phase>>

AnyEvent == EventPass /\ UNCHANGED phase

AnyLifecycle == \E event \in {"WidgetAdded", "Other"} :
                    LifecyclePass(event) /\ UNCHANGED phase

AnyUpdate == UpdatePass /\ UNCHANGED phase

AnyLayout ==
    /\ \E bc \in AnyBcs, sz \in HostSizes :
         LayoutPass(bc, [k \in 1..Len(children) |-> sz], 0)
    /\ phase' = IF Faulted THEN "panicked" ELSE phase

AnyPaint == PaintPass /\ UNCHANGED phase

NextAny ==
    \/ AnySetData
    \/ AnyEvent
    \/ AnyLifecycle
    \/ AnyUpdate
    \/ AnyLayout
    \/ AnyPaint

SpecAny == InitAny /\ [][NextAny]_vars

\* --------------------------------------------------- the layout pass alone
\* The first layout pass of a grid of any configuration, over a pool and a
\* collection whose lengths differ by at most one.

LayoutChains ==
    {h \o s \o m :
        h \in {<<>>, <<<<"horizontal", 0>>>>},
        s \in {<<>>, <<<<"with_vertical_spacing", 2>>, <<"with_horizontal_spacing", 3>>>>},
        m \in {<<<<"wrap", 0>>>>} \cup {<<<<"with_minor_axis_count", n>>>> : n \in Counts}}

LayoutBcs ==
    {Bc(<<0, 0>>, <<25, 35>>), Bc(<<0, 0>>, <<5, 5>>), Bc(<<0, 0>>, <<0, 0>>),
     Bc(<<15, 12>>, <<25, 35>>), Bc(<<0, 0>>, <<25, Infinity>>),
     Bc(<<0, 0>>, <<Infinity, 35>>)}

\* The sizes children measure to: all alike, or the last one another size.
LayoutSizes == {<<0, 0>>, <<0, 10>>, <<10, 0>>, <<10, 10>>, <<10, 20>>}
OddSize == <<20, 10>>
\* The children's own paint insets (a child painting outside its box).
ChildInsets == {0, 1}

InitLayout ==
    /\ \E k \in 0..MaxPool, n \in 0..MaxPool :
         /\ n \in {k - 1, k, k + 1}
         /\ children = [i \in 1..k |-> i]
         /\ created = k
         /\ data = [ptr |-> 0, items |-> [i \in 1..n |-> 0]]
    /\ \E cs \in LayoutChains : Configured(built(new, cs), cs)
    /\ phase = "added"
    /\ pass = NoPass
    /\ lay = NoLay

LayoutAlone ==
    /\ pass.kind = "none"
    /\ \E bc \in LayoutBcs, sz \in LayoutSizes, last \in LayoutSizes \cup {OddSize},
          inset \in ChildInsets :
         /\ last \in {sz, OddSize}
         /\ LayoutPass(bc, [k \in 1..Len(children) |->
                               IF k = Len(children) THEN last ELSE sz], inset)
    /\ phase' = IF Faulted THEN "panicked" ELSE phase

NextLayout == LayoutAlone

SpecLayout == InitLayout /\ [][NextLayout]_vars

\* ------------------------------------------------ builders and setters
\* GridView::new(..) followed by any chain of builder/setter calls, and the
\* layout pass that reads the configuration.

InitBuild ==
    /\ children = <<>>
    /\ created = 0
    /\ data = [ptr |-> 0, items |-> <<>>]
    /\ Configured(new, <<>>)
    /\ phase = "build"
    /\ pass = NoPass
    /\ lay = NoLay

BuildCall ==
    /\ Alive
    /\ Len(chain) < MaxChain
    /\ \E c \in Calls :
         LET g == call([axis |-> axis, vertical_spacing |-> vertical_spacing,
                        horizontal_spacing |-> horizontal_spacing,
                        minor_axis_count |-> minor_axis_count], c)
         IN  /\ axis' = g.axis
             /\ vertical_spacing' = g.vertical_spacing
             /\ horizontal_spacing' = g.horizontal_spacing
             /\ minor_axis_count' = g.minor_axis_count
             /\ chain' = Append(chain, c)
    /\ pass' = NoPass
    /\ lay' = NoLay
    /\ UNCHANGED <<children, created, data, phase>>

BuildLayout ==
    /\ LayoutPass(Bc(<<0, 0>>, <<25, 35>>), <<>>, 0)
    /\ phase' = IF Faulted THEN "panicked" ELSE phase

NextBuild == BuildCall \/ BuildLayout

SpecBuild == InitBuild /\ [][NextBuild]_vars

\* ------------------------------------------- the adapter's operations
\* The GridIter operations of Arc<Vec<T>> called on their own, with any
\* visitor and any row length.

InitAdapter ==
    /\ children = <<>>
    /\ created = 0
    /\ \E items \in Colls : data = [ptr |-> 0, items |-> items]
    /\ Configured(new, <<>>)
    /\ phase = "adapter"
    /\ pass = NoPass
    /\ lay = NoLay

Called(cs) == [k \in 1..Len(cs) |-> <<"call", 0, cs[k][2], cs[k][1]>>]

RowLens == 0..(MaxCount + 1)

AdapterForEach ==
    /\ Alive
    /\ pass' = [NoPass EXCEPT !.kind = "for_each", !.coll = data.items,
                              !.ptr = data.ptr, !.trace = Called(for_each(data))]
    /\ UNCHANGED <<children, created, data, config, phase, lay>>

\* row; self.chunks(0) panics.
AdapterRow ==
    /\ Alive
    /\ \E row_len \in RowLens :
         /\ pass' = [NoPass EXCEPT !.kind = "row", !.coll = data.items,
                                   !.ptr = data.ptr, !.target = row_len,
                                   !.trace = IF row_len = 0 THEN <<>>
                                             ELSE Called(row(data, row_len))]
         /\ phase' = IF row_len = 0 THEN "panicked" ELSE phase
    /\ UNCHANGED <<children, created, data, config, lay>>

AdapterForEachMut ==
    /\ Alive
    /\ \E edit \in [1..data_len(data) -> Items] :
         /\ data' = for_each_mut(data, edit)
         /\ pass' = [NoPass EXCEPT !.kind = "for_each_mut", !.coll = data.items,
                                   !.ptr = data.ptr, !.edit = edit,
                                   !.trace = Called(for_each(data))]
    /\ UNCHANGED <<children, created, config, phase, lay>>

\* row_mut; self.chunks(0) panics before anything is visited.
AdapterRowMut ==
    /\ Alive
    /\ \E edit \in [1..data_len(data) -> Items], row_len \in RowLens :
         /\ data' = IF row_len = 0 THEN data ELSE row_mut(data, edit, row_len)
         /\ pass' = [NoPass EXCEPT !.kind = "row_mut", !.coll = data.items,
                                   !.ptr = data.ptr, !.edit = edit,
                                   !.target = row_len,
                                   !.trace = IF row_len = 0 THEN <<>>
                                             ELSE Called(row(data, row_len))]
         /\ phase' = IF row_len = 0 THEN "panicked" ELSE phase
    /\ UNCHANGED <<children, created, config, lay>>

NextAdapter ==
    \/ AdapterForEach
    \/ AdapterRow
    \/ AdapterForEachMut
    \/ AdapterRowMut

SpecAdapter == InitAdapter /\ [][NextAdapter]_vars


\* =========================================================== properties

\* The entries of a trace made by update_child_count, and the visits.
ReconcileTrace(tr) == SelectSeq(tr, LAMBDA e : e[1] \in {"factory", "truncate"})
Visits(tr) == SelectSeq(tr, LAMBDA e : e[1] \in {"dispatch", "skip"})
Elems(sq) == {sq[k] : k \in 1..Len(sq)}

\* The last step was a pass that may change the pool: a WidgetAdded
\* lifecycle pass or an update pass.
JustReconciled ==
    \/ pass.kind = "update"
    \/ pass.kind = "lifecycle" /\ pass.event = "WidgetAdded"

\* C1: under the host's pass ordering the pool is as long as the collection
\* right after every WidgetAdded lifecycle pass and every update pass, and
\* on entry to every event, layout and paint pass.
C1_PoolInSync ==
    /\ JustReconciled => Len(children) = Len(data.items)
    /\ pass.kind \in {"event", "layout", "paint"} => Len(pass.pool) = Len(pass.coll)

\* The pool has grown, shrunk and grown again, and a layout pass runs.
C1_Witness ==
    /\ pass.kind = "layout"
    /\ Len(pass.pool) = 2
    /\ created = 4

\* C2: update_child_count against a collection of length n truncates a
\* larger pool to n, appends to a smaller pool one new child per index from
\* the old size to n - 1 in ascending order, does nothing to an equal one;
\* afterwards the pool has size n, and it returns true iff the size changed.
C2_Reconcile ==
    pass.reconciled =>
        LET m == Len(pass.pool)
            n == Len(pass.coll)
            rt == ReconcileTrace(pass.trace)
        IN  /\ pass.target = n
            /\ m > n => /\ rt = <<<<"truncate", 0, n, 0>>>>
                        /\ children = SubSeq(pass.pool, 1, n)
            /\ m < n => /\ Len(rt) = n - m
                        /\ \A k \in 1..(n - m) :
                             /\ rt[k][1] = "factory"
                             /\ rt[k][3] = m + k - 1
                             /\ rt[k][2] \notin Elems(pass.pool)
                             /\ \A j \in 1..(k - 1) : rt[j][2] # rt[k][2]
                        /\ children = pass.pool \o [k \in 1..(n - m) |-> rt[k][2]]
            /\ m = n => rt = <<>> /\ children = pass.pool
            /\ Len(children) = n
            /\ pass.ret <=> (Len(children) # m)

\* A pool of one child reconciled against three items.
C2_Witness ==
    /\ pass.reconciled
    /\ Len(pass.pool) = 1
    /\ Len(pass.coll) = 3
    /\ Len(children) = 3

\* C3: update_child_count run twice in a row against the same length: the
\* second run invokes no factory, truncates nothing and returns false.
C3_Idempotent ==
    (pass.reconciled /\ pass.prev = pass.target) =>
        /\ ReconcileTrace(pass.trace) = <<>>
        /\ ~pass.ret
        /\ Count(pass.trace, "children_changed") = 0
        /\ children = pass.pool

\* An update pass right after a pass that reconciled against the same two
\* items.
C3_Witness ==
    /\ pass.kind = "update"
    /\ pass.prev = 2
    /\ pass.target = 2

\* C4: every reconciliation leaves the pool as long as the length it ran
\* against and invokes the factory max(0, length - pool size on entry)
\* times, once for each index that had no child, in ascending order; no
\* other step invokes it.  (The total is the sum over the steps.)
C4_FactoryCount ==
    [][/\ pass'.reconciled =>
            LET m == Len(children)
                n == pass'.target
                fs == SelectSeq(pass'.trace, LAMBDA e : e[1] = "factory")
            IN  /\ n = Len(data.items)
                /\ Len(children') = n
                /\ created' = created + Max(0, n - m)
                /\ Len(fs) = Max(0, n - m)
                /\ \A k \in 1..Len(fs) : fs[k][3] = m + k - 1
       /\ ~pass'.reconciled => created' = created /\ Count(pass'.trace, "factory") = 0
      ]_vars

\* Three children made, all dropped, one made again: four invocations.
C4_Witness ==
    /\ pass.reconciled
    /\ created = 4
    /\ Len(children) = 1
    /\ Len(pass.pool) = 0

\* C5: for_each_mut and row_mut with a visitor that alters no item leave the
\* collection the same Arc; with a visitor that alters some item the Arc is
\* replaced by a new one of the same length holding, at each index, what the
\* visitor left for that index.
C5_CopyOnAnyChange ==
    (pass.kind \in {"for_each_mut", "row_mut"} /\ Alive) =>
        IF \A k \in 1..Len(pass.coll) : same(pass.coll[k], pass.edit[k])
        THEN data = [ptr |-> pass.ptr, items |-> pass.coll]
        ELSE /\ data.ptr # pass.ptr
             /\ Len(data.items) = Len(pass.coll)
             /\ \A k \in 1..Len(pass.coll) : data.items[k] = pass.edit[k]

\* row_mut over three items whose visitor altered the last one only.
C5_Witness ==
    /\ pass.kind = "row_mut"
    /\ Alive
    /\ Len(pass.coll) = 3
    /\ pass.edit[1] = pass.coll[1]
    /\ pass.edit[2] = pass.coll[2]
    /\ pass.edit[3] # pass.coll[3]


\* A layout pass that ran to its end.
LaidOut == pass.kind = "layout" /\ lay.fault = "none"

\* The children a layout pass placed all measured to the size sz.
AllSized(sz) == \A k \in 1..Len(lay.origins) : lay.sizes[k] = sz

\* C6: in Count(n) mode, n >= 1, with equally sized items the item of flat
\* index idx is placed at row idx / n, column idx % n: its major-axis origin
\* is row * (major extent + major spacing), its minor-axis origin is
\* col * (minor extent + minor spacing), and the major-axis origin never
\* decreases from one index to the next.  With n = 3, no spacing, the
\* vertical axis and five 10x10 items, item 3 is at (0, 10), item 4 at
\* (10, 10).
C6_RowMajor ==
    (LaidOut /\ lay.policy = "Count" /\ Len(lay.origins) > 0
        /\ AllSized(lay.sizes[1])) =>
        LET n == lay.count
            w == lay.sizes[1][1]
            h == lay.sizes[1][2]
            at(idx) == lay.origins[idx + 1]
        IN  /\ n >= 1
            /\ \A idx \in 0..(Len(lay.origins) - 1) :
                 LET r == idx \div n
                     c == idx % n
                 IN  IF axis = "Vertical"
                     THEN at(idx) = <<c * (w + horizontal_spacing),
                                      r * (h + vertical_spacing)>>
                     ELSE at(idx) = <<r * (w + horizontal_spacing),
                                      c * (h + vertical_spacing)>>
            /\ \A idx \in 1..(Len(lay.origins) - 1) :
                 major(axis, at(idx - 1)) <= major(axis, at(idx))
            /\ (/\ n = 3
                /\ axis = "Vertical"
                /\ vertical_spacing = 0 /\ horizontal_spacing = 0
                /\ w = 10 /\ h = 10
                /\ Len(lay.origins) = 5)
               => at(3) = <<0, 10>> /\ at(4) = <<10, 10>>

\* Five 10x10 items, three to a row, laid out top to bottom with no spacing.
C6_Witness ==
    /\ LaidOut
    /\ minor_axis_count = <<"Count", 3>>
    /\ axis = "Vertical"
    /\ vertical_spacing = 0 /\ horizontal_spacing = 0
    /\ Len(pass.coll) = 5
    /\ Len(lay.origins) = 5
    /\ AllSized(<<10, 10>>)

SetMin(S) == CHOOSE x \in S : \A y \in S : x <= y
SetMax(S) == CHOOSE x \in S : \A y \in S : x >= y

\* The union of the paint rectangles of the children a layout pass placed
\* (the empty rectangle at the origin if it placed none).
PlacedUnion ==
    LET P == 1..Len(lay.origins)
    IN  IF P = {} THEN [x0 |-> 0, y0 |-> 0, x1 |-> 0, y1 |-> 0]
        ELSE [x0 |-> SetMin({lay.origins[k][1] - lay.inset : k \in P}),
              y0 |-> SetMin({lay.origins[k][2] - lay.inset : k \in P}),
              x1 |-> SetMax({lay.origins[k][1] + lay.sizes[k][1] + lay.inset : k \in P}),
              y1 |-> SetMax({lay.origins[k][2] + lay.sizes[k][2] + lay.inset : k \in P})]

Clamp(x, lo, hi) == IF x < lo THEN (IF lo < hi THEN lo ELSE hi)
                    ELSE IF x > hi THEN hi ELSE x

\* C7: layout returns the size of the union of the placed children's paint
\* rectangles clamped to the incoming constraints, and sets as paint insets
\* the difference between that union and the rectangle of the returned size
\* at the origin, also when the box is smaller than the union.
C7_Bounding ==
    LaidOut =>
        LET u == PlacedUnion
        IN  /\ lay.my_size = <<Clamp(u.x1 - u.x0, lay.bc.min[1], lay.bc.max[1]),
                               Clamp(u.y1 - u.y0, lay.bc.min[2], lay.bc.max[2])>>
            /\ lay.insets = [x0 |-> 0 - u.x0, y0 |-> 0 - u.y0,
                             x1 |-> u.x1 - lay.my_size[1],
                             y1 |-> u.y1 - lay.my_size[2]]

\* A box smaller than the union of three children that paint outside their
\* own boxes: the overflow is reported on every side.
C7_Witness ==
    /\ LaidOut
    /\ Len(lay.origins) >= 3
    /\ lay.my_size[1] < lay.paint_rect.x1 - lay.paint_rect.x0
    /\ lay.my_size[2] < lay.paint_rect.y1 - lay.paint_rect.y0
    /\ lay.insets.x0 > 0 /\ lay.insets.y0 > 0
    /\ lay.insets.x1 > 0 /\ lay.insets.y1 > 0

\* C8: in Wrap mode, laying out a one-item collection whose item measures
\* to zero size in both dimensions raises no fault and uses an effective
\* minor-axis count of 1.
C8_WrapZeroSize ==
    (pass.kind = "layout" /\ lay.policy = "Wrap" /\ Len(pass.coll) = 1
        /\ Len(pass.pool) = 1 /\ lay.sizes[1] = <<0, 0>>) =>
        /\ lay.fault = "none"
        /\ Alive
        /\ lay.count = 1
        /\ lay.origins = <<<<0, 0>>>>

\* One item, one child measuring 0x0, in a box that is not empty.
C8_Witness ==
    /\ pass.kind = "layout"
    /\ lay.policy = "Wrap"
    /\ Len(pass.coll) = 1
    /\ Len(pass.pool) = 1
    /\ lay.sizes[1] = <<0, 0>>
    /\ lay.bc.max = <<25, 35>>

\* The chain of builder/setter calls holds wrap and a count call.
WrapAndCount ==
    /\ \E k \in 1..Len(chain) : chain[k][1] = "wrap"
    /\ \E k \in 1..Len(chain) :
         chain[k][1] \in {"with_minor_axis_count", "set_minor_axis_count"}

\* C9: once wrap() and with_minor_axis_count(n) or set_minor_axis_count(n)
\* have both been called, in either order, the policy is Wrap and layout
\* takes the Wrap arm.
C9_WrapPriority ==
    WrapAndCount =>
        /\ minor_axis_count[1] = "Wrap"
        /\ pass.kind = "layout" => lay.policy = "Wrap"

\* A pass that propagates to the pool as it is on entry, entered with fewer
\* children than items.
ShortPool ==
    /\ pass.kind \in {"event", "lifecycle", "update", "layout", "paint"}
    /\ ~(pass.kind = "lifecycle" /\ pass.event = "WidgetAdded")
    /\ Len(pass.pool) < Len(pass.coll)

Places(tr, ops) == {k \in 1..Len(tr) : tr[k][1] \in ops}

\* The children a pass dispatched to, in order.
Dispatched(tr) ==
    LET ds == SelectSeq(tr, LAMBDA e : e[1] = "dispatch")
    IN  [k \in 1..Len(ds) |-> ds[k][2]]

\* C11: an update pass propagates before it reconciles: every visit comes
\* before every factory invocation and truncation, no child made by the
\* pass is handed the update, and children_changed is signalled, after all
\* of that, iff the pool size changed.
C11_UpdateOrder ==
    pass.kind = "update" =>
        LET tr == pass.trace
            made == {tr[k][2] : k \in Places(tr, {"factory"})}
        IN  /\ \A i \in Places(tr, {"dispatch", "skip"}) :
                 \A j \in Places(tr, {"factory", "truncate", "children_changed"}) :
                    i < j
            /\ \A k \in Places(tr, {"dispatch"}) :
                 tr[k][2] \notin made /\ tr[k][2] \in Elems(pass.pool)
            /\ Count(tr, "children_changed")
                   = (IF Len(children) # Len(pass.pool) THEN 1 ELSE 0)
            /\ \A k \in Places(tr, {"children_changed"}) : k = Len(tr)

\* An update pass that finds one child and three items: two children made.
C11_Witness ==
    /\ pass.kind = "update"
    /\ Len(pass.pool) = 1
    /\ Len(pass.coll) = 3
    /\ Count(pass.trace, "factory") = 2

\* C12: in an update pass whose collection is shorter than the pool, the
\* update is handed to every child the pool holds on entry, the trailing
\* ones that the reconciliation then removes included.
C12_UpdateReachesRemoved ==
    (pass.kind = "update" /\ Len(pass.coll) < Len(pass.pool)) =>
        Dispatched(pass.trace) = pass.pool

\* C13: a WidgetAdded lifecycle pass reconciles first, signals
\* children_changed iff the pool size changed, and then hands the event to
\* every child of the reconciled pool, the new ones included, once each,
\* with the item of its index.  A lifecycle pass of any other event does not
\* reconcile and leaves the pool as it is.
C13_Lifecycle ==
    pass.kind = "lifecycle" =>
        LET tr == pass.trace
        IN  IF pass.event = "WidgetAdded"
            THEN /\ pass.reconciled
                 /\ Len(children) = Len(pass.coll)
                 /\ \A i \in Places(tr, {"factory", "truncate", "children_changed"}) :
                      \A j \in Places(tr, {"dispatch", "skip"}) : i < j
                 /\ Count(tr, "children_changed")
                        = (IF Len(children) # Len(pass.pool) THEN 1 ELSE 0)
                 /\ Visits(tr) = [k \in 1..Len(children) |->
                                     <<"dispatch", children[k], k - 1, pass.coll[k]>>]
                 /\ {tr[k][2] : k \in Places(tr, {"factory"})} \subseteq Elems(children)
            ELSE /\ ~pass.reconciled
                 /\ children = pass.pool
                 /\ Places(tr, {"factory", "truncate", "children_changed"}) = {}

\* WidgetAdded with one child and three items: the two children it makes
\* get the event too.
C13_Witness ==
    /\ pass.kind = "lifecycle"
    /\ pass.event = "WidgetAdded"
    /\ Len(pass.pool) = 1
    /\ Len(pass.coll) = 3
    /\ Count(pass.trace, "dispatch") = 3

\* C14: the event, layout and paint passes leave the pool as it is (the same
\* children in the same order) and invoke no factory; the event pass leaves
\* the collection its length, whatever the children do to the items.
C14_PoolFrame ==
    [][pass'.kind \in {"event", "layout", "paint"} =>
            /\ children' = children
            /\ created' = created
            /\ Places(pass'.trace, {"factory", "truncate", "children_changed"}) = {}
            /\ pass'.kind = "event" => Len(data'.items) = Len(data.items)
      ]_vars

\* An event pass with fewer children than items, a child of which changed
\* its item.
C14_Witness ==
    /\ pass.kind = "event"
    /\ Len(pass.pool) = 2
    /\ Len(pass.coll) = 3
    /\ pass.edit # pass.coll
    /\ data.ptr # pass.ptr

\* C15: reconciliation only appends or truncates: the first min(m, n)
\* children after it are the children that were at those indices before,
\* and no child is at two indices.
C15_AppendTruncateOnly ==
    pass.reconciled =>
        /\ \A k \in 1..Min(Len(pass.pool), Len(pass.coll)) :
             /\ k <= Len(children)
             /\ children[k] = pass.pool[k]
        /\ \A i, j \in 1..Len(children) : children[i] = children[j] => i = j

\* Three children truncated to two after one of an earlier pool was dropped.
C15_Witness ==
    /\ pass.reconciled
    /\ Len(pass.pool) = 3
    /\ Len(children) = 2
    /\ created = 4


\* The minor extent the Wrap arm measured: that of the probed child, 0 with
\* no child to probe.
MeasuredMinor == IF lay.probe = <<>> THEN 0 ELSE minor(axis, lay.probe[1])

\* C16: in Wrap mode the effective minor-axis count is 1 whenever the probed
\* child measures to a zero minor extent, whatever its major extent, or the
\* collection is empty; otherwise it is floor(available minor extent /
\* measured minor extent).
C16_WrapZeroMinor ==
    (pass.kind = "layout" /\ lay.policy = "Wrap" /\ lay.fault # "unwrap on None") =>
        IF MeasuredMinor = 0 \/ Len(pass.coll) = 0
        THEN lay.count = 1 /\ lay.fault = "none"
        ELSE lay.count = floor_div_as_usize(minor(axis, lay.bc.max), MeasuredMinor)

\* C17: for every collection and every row_len >= 1, row makes the calls
\* for_each makes, in the same order: every item once with its flat index.
C17_RowAsForEach ==
    (pass.kind = "row" /\ pass.target >= 1) =>
        /\ Len(pass.trace) = Len(pass.coll)
        /\ \A k \in 1..Len(pass.trace) :
             pass.trace[k] = <<"call", 0, for_each(data)[k][2], for_each(data)[k][1]>>
        /\ data.items = pass.coll

\* Three items visited in rows of two: the last row is short.
C17_Witness ==
    /\ pass.kind = "row"
    /\ pass.target = 2
    /\ Len(pass.coll) = 3
    /\ Len(pass.trace) = 3

\* C18: in Wrap mode the effective minor-axis count is at least 1 for every
\* available minor extent and every measured child size, a child wider than
\* the available extent included, so chunking and the row-completion test
\* never work on zero and layout does not fault.
C18_WrapCountPositive ==
    (pass.kind = "layout" /\ lay.policy = "Wrap" /\ lay.fault # "unwrap on None") =>
        /\ lay.count >= 1
        /\ lay.fault = "none"
        /\ Alive

\* C19: under the host's pass ordering the Wrap probe finds a sample item:
\* a layout pass entered with a non-empty pool has a non-empty collection,
\* and the unwrap of child_data() does not panic.
C19_ProbeHasItem ==
    pass.kind = "layout" =>
        /\ Len(pass.pool) > 0 => Len(pass.coll) > 0
        /\ Len(pass.pool) > 0 => child_data(data) # <<>>
        /\ lay.fault # "unwrap on None"

\* A Wrap layout that probed a child, after the collection had been empty
\* and the pool truncated to nothing.
C19_Witness ==
    /\ pass.kind = "layout"
    /\ lay.policy = "Wrap"
    /\ lay.probe # <<>>
    /\ Len(pass.pool) > 0
    /\ created > Len(pass.pool)

\* C20 as stated: the per-child constraints have, on the minor axis, a
\* minimum of 0 and a maximum equal to the major-axis maximum of the
\* incoming constraints, for both orientations.
C20_ChildBcMinor ==
    pass.kind = "layout" =>
        /\ minor(axis, lay.child_bc.min) = 0
        /\ minor(axis, lay.child_bc.max) = major(axis, lay.bc.max)

\* C20: the per-child constraints have, on the major axis (the width of a
\* horizontal grid, the height of a vertical one), a minimum of 0 and a
\* maximum equal to the major-axis maximum of the incoming constraints; on
\* the minor axis they keep the minimum and maximum of the incoming
\* constraints.
C20_ChildBcMajor ==
    pass.kind = "layout" =>
        IF axis = "Horizontal"
        THEN /\ lay.child_bc.min = <<0, lay.bc.min[2]>>
             /\ lay.child_bc.max = <<lay.bc.max[1], lay.bc.max[2]>>
        ELSE /\ lay.child_bc.min = <<lay.bc.min[1], 0>>
             /\ lay.child_bc.max = <<lay.bc.max[1], lay.bc.max[2]>>

\* A horizontal grid laid out in a box whose minima are not 0 and whose
\* width and height differ.
C20_Witness ==
    /\ pass.kind = "layout"
    /\ axis = "Horizontal"
    /\ lay.bc = [min |-> <<15, 12>>, max |-> <<25, 35>>]
    /\ lay.child_bc = [min |-> <<0, 12>>, max |-> <<25, 35>>]

=============================================================================
